---- MODULE Spec2Model ----
(***************************************************************************)
(* Model of the QMDL ingestion pipeline: FileIO (fileio.py),               *)
(* QmdlReader._extract_hdlc_packets / read_qmdl_file / _read_hex_data      *)
(* (qmdl_reader.py) and QmdlBridge.read_qmdl_file (qmdl_bridge.py).        *)
(* Bytes are integers 0..255; byte strings are sequences of bytes.         *)
(***************************************************************************)
EXTENDS Integers, Sequences, FiniteSets, TLC

(* ------------------------------------------------------------------ *)
(* Program constants                                                   *)
(* ------------------------------------------------------------------ *)
Delim == 126

MinPacketLen == 3

MaxPacketLen == 8192

ReadSize == 4096

BytesPerMb == 1048576

DefaultMinSizeMb == 20

(* ------------------------------------------------------------------ *)
(* Bounds of the model                                                 *)
(* ------------------------------------------------------------------ *)
\* longest file content enumerated over {0x7e, 'A', 'B'}
MaxLen == 6

\* longest file content enumerated over {0x7e, 'A'}
MaxBinLen == 9

\* min_size_mb values passed by a direct caller of QmdlReader.read_qmdl_file
MaxMinSizeMb == 1

\* non-delimiter byte values used in enumerated contents ('A', 'B')
DataBytes == {65, 66}

Alphabet == DataBytes \cup {Delim}

(* ------------------------------------------------------------------ *)
(* Byte-string helpers                                                 *)
(* ------------------------------------------------------------------ *)
Min(a, b) == IF a < b THEN a ELSE b

Run(b, n) == [i \in 1..n |-> b]

\* the indices of s in increasing order, as a sequence (range(len(s)))
Indices(s) == [i \in 1..Len(s) |-> i]

SeqsUpTo(S, n) == UNION {[1..k -> S] : k \in 0..n}

(* ------------------------------------------------------------------ *)
(* QmdlReader._extract_hdlc_packets, primary scan                      *)
(* ------------------------------------------------------------------ *)
\* (mutation) the upper limit is exclusive
InWindowExclusiveMax(n) == MinPacketLen <= n /\ n < MaxPacketLen

\* 3 <= len(packet) <= 8192
InWindow(n) == MinPacketLen <= n /\ n <= MaxPacketLen

\* positions (1-based) of the 0x7e bytes of buf, in increasing order
FrameStarts(buf) == SelectSeq(Indices(buf), LAMBDA i : buf[i] = Delim)

\* (mutation) the tail starts after the last delimiter
RemainingFromAfterDelim(buf, fs) == SubSeq(buf, fs[Len(fs)] + 1, Len(buf))

\* (mutation) the tail starts at the first delimiter
RemainingFromFirstDelim(buf, fs) == SubSeq(buf, fs[1], Len(buf))

\* remaining_buffer when at least two delimiters were found
RemainingFrom(buf, fs) == SubSeq(buf, fs[Len(fs)], Len(buf))

\* (mutation) one delimiter is taken to be enough
NotEnoughDelimsOffByOne(fs) == Len(fs) < 1

\* (mutation) three delimiters are asked for
NotEnoughDelimsThree(fs) == Len(fs) < 3

\* len(frame_starts) < 2: not enough delimiters, keep everything
NotEnoughDelims(fs) == Len(fs) < 2

\* (mutation) the packet keeps its opening delimiter
PacketBetweenWithDelim(buf, d1, d2) == SubSeq(buf, d1, d2 - 1)

\* buf[start:end] for start = d1 + 1 (0-based), end = d2: the bytes strictly
\* between the delimiters at (1-based) positions d1 and d2
PacketBetween(buf, d1, d2) == SubSeq(buf, d1 + 1, d2 - 1)

ExtractHdlcPackets(buf, previous_buffer) ==
  LET fs == FrameStarts(buf)
  IN  IF NotEnoughDelims(fs)
        THEN [complete_packets |-> << >>, remaining_buffer |-> buf]
        ELSE LET cand == [k \in 1..(Len(fs) - 1) |->
                            PacketBetween(buf, fs[k], fs[k + 1])]
                 ok(p) == Len(p) > 0 /\ InWindow(Len(p))
             IN  [complete_packets |-> SelectSeq(cand, ok),
                  remaining_buffer |-> IF Len(fs) > 0
                                         THEN RemainingFrom(buf, fs)
                                         ELSE buf]

(* ------------------------------------------------------------------ *)
(* QmdlReader._extract_hdlc_packets, fallback (except Exception)        *)
(* ------------------------------------------------------------------ *)
\* buf.split(b'\x7e'): the segments between the delimiters, the empty ones
\* included; k delimiters give k + 1 segments
SplitOn(buf) ==
  LET fs    == FrameStarts(buf)
      lo(k) == IF k = 1 THEN 1 ELSE fs[k - 1] + 1
      hi(k) == IF k <= Len(fs) THEN fs[k] - 1 ELSE Len(buf)
  IN  [k \in 1..(Len(fs) + 1) |-> SubSeq(buf, lo(k), hi(k))]

\* packets.pop() if packets else b''
Popped(packets) == IF packets = << >> THEN << >> ELSE packets[Len(packets)]

\* (mutation) the popped segment stays in the list
AfterPopKeepsLast(packets) == packets

\* packets after packets.pop()
AfterPop(packets) == SubSeq(packets, 1, Len(packets) - 1)

FallbackSplit(buf) ==
  LET packets == SplitOn(buf)
  IN  [complete_packets |-> SelectSeq(AfterPop(packets),
                                      LAMBDA p : InWindow(Len(p))),
       remaining_buffer |-> Popped(packets)]

\* the whole function: the scan, or the fallback when the scan raised
ExtractOrFallback(buf, previous_buffer, scan_raises) ==
  IF scan_raises THEN FallbackSplit(buf)
  ELSE ExtractHdlcPackets(buf, previous_buffer)

(* ------------------------------------------------------------------ *)
(* Files on disk.  A file's content is `data` followed by `pad` idle    *)
(* 0x7e flag bytes, so that captures of gate size stay representable.   *)
(* ------------------------------------------------------------------ *)
File(d, p, e, o) == [data |-> d, pad |-> p, exists |-> e, openable |-> o]

FileSize(fl) == Len(fl.data) + fl.pad

\* the i-th byte (1-based) of the file's content
ByteAt(fl, i) == IF i <= Len(fl.data) THEN fl.data[i] ELSE Delim

\* the n bytes of the file's content after offset pos
Slice(fl, pos, n) == [i \in 1..n |-> ByteAt(fl, pos + i)]

\* 7E 'AB' 7E 'XYZ123' 7E
ExampleBuffer == <<126, 65, 66, 126, 88, 89, 90, 49, 50, 51, 126>>

\* a delimiter, n bytes 'A', a delimiter
Framed(n) == <<Delim>> \o Run(65, n) \o <<Delim>>

\* 7E, 8192 x 'A', 7E, 8193 x 'B', 7E 'AAA' 7E 'BB' 7E
WindowBuffer ==
  Framed(MaxPacketLen) \o Run(66, MaxPacketLen + 1) \o Framed(MinPacketLen)
     \o Run(66, MinPacketLen - 1) \o <<Delim>>

LongFrameLen == 10000

BigContents ==
  {Framed(LongFrameLen), Framed(MaxPacketLen), Framed(MaxPacketLen + 1),
   WindowBuffer}

\* minimum-size gate in bytes for a given min_size_mb
GateBytes(mb) == mb * BytesPerMb

MinSizeMbs == 0..MaxMinSizeMb

\* sizes one byte under the gate and exactly at the gate
GateSizes(mb) == {GateBytes(mb) - 1, GateBytes(mb)}

\* captures of those sizes: one frame followed by idle flags
GateFiles ==
  {File(Framed(MinPacketLen), sz - (MinPacketLen + 2), TRUE, o) :
     sz \in UNION {GateSizes(mb) :
                     mb \in (MinSizeMbs \cup {DefaultMinSizeMb}) \ {0}},
     o \in BOOLEAN}

Files ==
  {File(d, 0, TRUE, TRUE) :
     d \in SeqsUpTo(Alphabet, MaxLen) \cup SeqsUpTo({Delim, 65}, MaxBinLen)}
    \cup {File(d, 0, TRUE, TRUE) : d \in BigContents \cup {ExampleBuffer}}
    \cup {File(<< >>, 0, TRUE, FALSE), File(Framed(MinPacketLen), 0, TRUE, FALSE)}
    \cup {File(<< >>, 0, FALSE, FALSE)}
    \cup GateFiles

(* ------------------------------------------------------------------ *)
(* File names: strings are sequences of one-character strings           *)
(* ------------------------------------------------------------------ *)
\* s.startswith(sub, i): sub occurs in s at 0-based index i
OccursAt(s, sub, i) ==
  /\ i + Len(sub) <= Len(s)
  /\ \A k \in 1..Len(sub) : s[i + k] = sub[k]

\* s.find(sub): the lowest 0-based index at which sub occurs in s, or -1
Find(s, sub) ==
  LET hits == {i \in 0..Len(s) : OccursAt(s, sub, i)}
  IN  IF hits = {} THEN -1
      ELSE CHOOSE i \in hits : \A j \in hits : i <= j

\* s.endswith(sub)
EndsWith(s, sub) == Len(sub) <= Len(s) /\ OccursAt(s, sub, Len(s) - Len(sub))

DotGz == <<".", "g", "z">>

DotBz2 == <<".", "b", "z", "2">>

DotQmdl == <<".", "q", "m", "d", "l">>

DotQMDL == <<".", "Q", "M", "D", "L">>

\* the path handed to read_qmdl_file in a run of the pipeline
FilePath == <<"f">> \o DotQmdl

(* ------------------------------------------------------------------ *)
(* State                                                               *)
(* ------------------------------------------------------------------ *)
VARIABLES
  file,              \* the file at file_path (environment)
  caller,            \* "reader": QmdlReader.read_qmdl_file called directly;
                     \* "bridge": called through QmdlBridge.read_qmdl_file
  min_size_mb,       \* argument of QmdlReader.read_qmdl_file
  pc,                \* position of the run: "gate", "open", "loop",
                     \* "summary", "returned" ("fileio", "list" when a
                     \* FileIO or list_qmdl_files is driven on its own)
  io_built,          \* a FileIO object has been constructed
  f,                 \* FileIO.f: "none", "open" or "closed"
  pos,               \* read offset of the handle FileIO.f
  opens,             \* number of open() calls made so far
  closes,            \* number of f.close() calls made so far
  fnames,            \* FileIO.fnames: the pending names, next one last
  fname,             \* FileIO.fname
  file_available,    \* FileIO.file_available
  fmode,             \* how FileIO.f was opened: "raw", "gzip" or "bz2"
  fnames0,           \* history: the list the FileIO was constructed from
  opened,            \* history: the names passed to _open_file, in order
  advances,          \* history: open_next_file calls made after construction
  ops,               \* history: calls made on the FileIO after construction
  last_op,           \* history: the last call made on the FileIO
  last_read,         \* history: what the last FileIO.read returned
  packet_buffer,     \* _read_hex_data: packet_buffer (the tail)
  chunk_count,       \* _read_hex_data: chunk_count
  total_bytes_read,  \* _read_hex_data: total_bytes_read
  parsed_packets,    \* _read_hex_data: parsed_packets (frames decoded to a result)
  stats,             \* QmdlReader.analyzer: its extraction statistics
  stats0,            \* history: the analyzer's statistics when the run began
  run_no,            \* history: runs started on this QmdlReader so far
  reads,             \* history: number of non-empty chunks io_device.read returned
  last_buf,          \* history: the combined buffer of the last iteration
  last_packets,      \* history: packets['complete_packets'] of the last iteration
  emitted,           \* history: all complete_packets of the run, in order
  forwarded,         \* history: frames passed to extract_signaling_from_packet
  decoder_none,      \* history: the decoder returned nothing for some frame
  loop_error,        \* history: an exception escaped the chunk loop
  read_failed,       \* history: the handle's read raised inside FileIO.read
  summary_error,     \* history: an analyzer call after the loop raised
  peer,              \* a second run on the same QmdlReader, interleaved
  directory,         \* list_qmdl_files: the entries of the directory
  list_mb,           \* list_qmdl_files: min_size_mb
  listing,           \* list_qmdl_files: the list returned
  ex,                \* _extract_hdlc_packets fed a stream in chunks, by the
                     \* scan, by the fallback, and as the code mixes them
  result,            \* value returned by QmdlReader.read_qmdl_file
  bridge_out         \* value returned by QmdlBridge.read_qmdl_file

vars == <<file, caller, min_size_mb, pc, io_built, f, pos, opens, closes,
          fnames, fname, file_available, fmode, fnames0, opened, advances,
          ops, last_op, last_read,
          packet_buffer, chunk_count, total_bytes_read, parsed_packets,
          stats, stats0, run_no,
          reads, last_buf, last_packets, emitted, forwarded,
          decoder_none, loop_error, read_failed, summary_error,
          peer, directory, list_mb, listing, ex, result, bridge_out>>

\* what one iteration of the chunk loop counts
countVars == <<packet_buffer, chunk_count, total_bytes_read, parsed_packets,
               stats, reads, last_buf, last_packets, emitted, forwarded,
               decoder_none>>

runVars == <<countVars, loop_error, read_failed, summary_error>>

\* the FileIO object besides its handle
ioVars == <<fnames, fname, file_available, fmode, fnames0, opened, advances,
            ops, last_op, last_read>>

listVars == <<directory, list_mb, listing>>

\* what a run is given and what runs beside it
runEnv == <<file, caller, min_size_mb, stats0, run_no, peer, listVars, ex>>

envVars == <<runEnv, ioVars>>

\* Python values: not yet returned, None
Pending == [py |-> "pending"]

None == [py |-> "None"]

\* an exception that reaches the caller
Raised(exc) == [py |-> "raise", exc |-> exc]

IsDict(r) == "status" \in DOMAIN r

\* the statistics of a SignalingAnalyzer that has decoded nothing yet
NoStats == [total_packets |-> 0, parsed_packets |-> 0]

\* no second run is in progress
NoPeer ==
  [pc |-> "idle", file |-> File(<< >>, 0, TRUE, TRUE), pos |-> 0,
   packet_buffer |-> << >>, chunk_count |-> 0, total_bytes_read |-> 0,
   forwarded |-> 0]

\* _extract_hdlc_packets about to be fed the stream s
NewExtract(s) ==
  [stream |-> s, pos |-> 0, chunks |-> 0,
   tail_p |-> << >>, out_p |-> << >>,
   tail_f |-> << >>, out_f |-> << >>,
   tail_m |-> << >>, out_m |-> << >>, fell_back |-> FALSE]

NoExtract == NewExtract(<< >>)

\* no FileIO object exists
HandleIdle == io_built = FALSE /\ f = "none" /\ pos = 0 /\ opens = 0 /\ closes = 0

IOIdle ==
  /\ fnames = << >>
  /\ fname = << >>
  /\ file_available = TRUE
  /\ fmode = "none"
  /\ fnames0 = << >>
  /\ opened = << >>
  /\ advances = 0
  /\ ops = 0
  /\ last_op = "none"
  /\ last_read = << >>

\* list_qmdl_files is not being called
NoDirectory == [accessible |-> FALSE, entries |-> << >>]

ListIdle == directory = NoDirectory /\ list_mb = 0 /\ listing = << >>

\* the locals of _read_hex_data before the loop
RunIdle ==
  /\ packet_buffer = << >>
  /\ chunk_count = 0
  /\ total_bytes_read = 0
  /\ parsed_packets = << >>
  /\ reads = 0
  /\ last_buf = << >>
  /\ last_packets = << >>
  /\ emitted = << >>
  /\ forwarded = << >>
  /\ decoder_none = FALSE
  /\ loop_error = FALSE
  /\ read_failed = FALSE
  /\ summary_error = FALSE

\* read_qmdl_file(file, min_size_mb) is called on a new QmdlReader
Init ==
  /\ file \in Files
  /\ caller \in {"reader", "bridge"}
  /\ min_size_mb \in IF caller = "bridge" THEN {DefaultMinSizeMb} ELSE MinSizeMbs
  /\ file.pad > 0 => FileSize(file) \in GateSizes(min_size_mb)
  /\ pc = "gate"
  /\ run_no = 1
  /\ stats = NoStats
  /\ stats0 = NoStats
  /\ peer = NoPeer
  /\ HandleIdle
  /\ IOIdle
  /\ ListIdle
  /\ ex = NoExtract
  /\ RunIdle
  /\ result = Pending
  /\ bridge_out = Pending

(* QmdlBridge.read_qmdl_file                                           *)
(* ------------------------------------------------------------------ *)
BridgeError(msg) == [error |-> msg]

\* json.dumps of the converted result; dumps may raise on a value that is
\* not serialisable, which the bridge turns into an error object
BridgeOutcomes(res) ==
  IF IsDict(res)
    THEN {[json |-> res], BridgeError("exception")}
    ELSE IF res = None
      THEN {BridgeError("File too small or could not be read")}
      ELSE {BridgeError("exception")}

\* QmdlReader.read_qmdl_file returns res; the bridge, when it is the caller,
\* returns its own value in turn
Return(res) ==
  /\ result' = res
  /\ pc' = "returned"
  /\ IF caller = "bridge"
       THEN bridge_out' \in BridgeOutcomes(res)
       ELSE bridge_out' = bridge_out

(* ------------------------------------------------------------------ *)
(* QmdlReader.read_qmdl_file: size gate                                *)
(* ------------------------------------------------------------------ *)
\* (mutation) the handler is missing and the exception leaves the function
AccessUncaught(exc) == Raised(exc)

\* except Exception as e: print("Error accessing file"); return None
AccessCaught(exc) == None

\* (mutation) the handler is missing and the exception leaves the function
ReadUncaught(exc) == Raised(exc)

\* except Exception as e: print("Error reading QMDL file"); return None
ReadCaught(exc) == None

\* (mutation) a file of exactly the gate size is rejected too
TooSmallInclusive(file_size, mb) == file_size <= GateBytes(mb)

TooSmall(file_size, mb) == file_size < GateBytes(mb)

\* os.path.getsize raises: "Error accessing file", return None
GateError ==
  /\ pc = "gate"
  /\ ~file.exists
  /\ Return(AccessCaught("getsize"))
  /\ UNCHANGED <<envVars, runVars, io_built, f, pos, opens, closes>>

\* file_size < min_size_bytes: "QMDL file too small", return None
GateReject ==
  /\ pc = "gate"
  /\ file.exists
  /\ TooSmall(FileSize(file), min_size_mb)
  /\ Return(None)
  /\ UNCHANGED <<envVars, runVars, io_built, f, pos, opens, closes>>

GatePass ==
  /\ pc = "gate"
  /\ file.exists
  /\ ~TooSmall(FileSize(file), min_size_mb)
  /\ pc' = "open"
  /\ UNCHANGED <<envVars, runVars, io_built, f, pos, opens, closes, result, bridge_out>>


(* ------------------------------------------------------------------ *)
(* FileIO: _open_file, __init__, read, close                           *)
(* ------------------------------------------------------------------ *)
Reverse(s) == [i \in 1..Len(s) |-> s[Len(s) + 1 - i]]

\* (mutation) the copy of the list is not reversed
PendingStackUnreversed(names) == names

\* self.fnames = fnames[:]; self.fnames.reverse()
PendingStack(names) == Reverse(names)

\* _open_file: gzip.open when fname.find('.gz') > 0, else bz2.open when
\* fname.find('.bz2') > 0, else open
OpenMode(name) ==
  IF Find(name, DotGz) > 0 THEN "gzip"
  ELSE IF Find(name, DotBz2) > 0 THEN "bz2"
  ELSE "raw"

\* (mutation) the exception of the handle's read leaves FileIO.read
FileIOReadRaises(h, fails, data) ==
  [raised |-> (h # "open" \/ fails),
   buf    |-> IF h = "open" /\ ~fails THEN data ELSE << >>]

\* FileIO.read: buf = bytes(self.f.read(read_size)); a bare except returns
\* b'' when that raises (no handle, a closed handle, an I/O or decoding
\* error of the handle)
FileIORead(h, fails, data) ==
  [raised |-> FALSE,
   buf    |-> IF h = "open" /\ ~fails THEN data ELSE << >>]

\* (mutation) close() leaves the handle open
CloseSkipped(h) == h

\* close(): if self.f: self.f.close()
Close(h) == IF h = "none" THEN "none" ELSE "closed"

\* the f.close() calls one close() makes
CloseCalls(h) == IF h = "none" THEN 0 ELSE 1

(* ------------------------------------------------------------------ *)
(* FileIO([file_path]): __init__ -> open_next_file -> _open_file       *)
(* ------------------------------------------------------------------ *)
\* open() succeeds
OpenFile ==
  /\ pc = "open"
  /\ file.openable
  /\ io_built' = TRUE
  /\ f' = "open"
  /\ pos' = 0
  /\ opens' = opens + 1
  /\ fnames0' = <<FilePath>>
  /\ fnames' = SubSeq(PendingStack(<<FilePath>>), 1, 0)
  /\ fname' = FilePath
  /\ file_available' = TRUE
  /\ fmode' = OpenMode(FilePath)
  /\ opened' = opened \o <<FilePath>>
  /\ pc' = "loop"
  /\ UNCHANGED <<runEnv, runVars, closes, advances, ops, last_op, last_read,
                 result, bridge_out>>

\* open() raises inside the constructor: "Error reading QMDL file", return None
OpenFails ==
  /\ pc = "open"
  /\ ~file.openable
  /\ opens' = opens + 1
  /\ opened' = opened \o <<FilePath>>
  /\ Return(ReadCaught("open"))
  /\ UNCHANGED <<runEnv, runVars, io_built, f, pos, closes, fnames, fname,
                 file_available, fmode, fnames0, advances, ops, last_op,
                 last_read>>

(* ------------------------------------------------------------------ *)
(* The handle's read                                                   *)
(* ------------------------------------------------------------------ *)
\* files up to this size are read with every possible split into chunks
MaxSplitLen == 11

\* most chunks read in one run (a 1 MiB capture takes 256 reads of 4096)
MaxReads == 260

\* lengths f.read(read_size) may return at offset p: a full read, or (for
\* the short files) any non-empty shorter one
ReadLens(fl, p, read_size) ==
  LET remaining == FileSize(fl) - p
  IN  {Min(read_size, remaining)}
        \cup (IF FileSize(fl) <= MaxSplitLen THEN 1..remaining ELSE {})

(* ------------------------------------------------------------------ *)
(* QmdlReader._read_hex_data: the chunk loop                           *)
(* ------------------------------------------------------------------ *)
DecoderOutcomes == {"result", "none", "raise"}

\* index of the first frame on which the decoder raises, 0 when it never does
FirstRaise(outs) ==
  IF \E k \in DOMAIN outs : outs[k] = "raise"
    THEN CHOOSE k \in DOMAIN outs :
           outs[k] = "raise" /\ \A j \in 1..(k - 1) : outs[j] # "raise"
    ELSE 0

\* (mutation) the frame is passed on as having no CRC
DecoderCallNoCrc(packet) ==
  [packet |-> packet, hdlc_encoded |-> TRUE, has_crc |-> FALSE]

\* the call made for one frame
DecoderCall(packet) ==
  [packet |-> packet, hdlc_encoded |-> TRUE, has_crc |-> TRUE]

\* the analyzer's counters after `calls` more frames were handed to
\* extract_signaling_from_packet and `results` of them decoded to a result
AnalyzerCount(st, calls, results) ==
  [total_packets  |-> st.total_packets + calls,
   parsed_packets |-> st.parsed_packets + results]

\* (mutation) the bytes are counted after the tail has been prepended
AddBytesCombined(total, chunk, combined) == total + Len(combined)

\* total_bytes_read += len(buf), before buf is combined with the tail
AddBytes(total, chunk, combined) == total + Len(chunk)

\* (mutation) the tail of the previous iteration is forgotten
CombineNoTail(tail, chunk) == chunk

\* buf = packet_buffer + buf
Combine(tail, chunk) == tail \o chunk

\* io_device.read returns b'': the file is out of data, or (before that)
\* the handle's read raised and FileIO.read swallowed it.  break, then
\* finally: io_device.close().  A failing read at the end of the data has
\* the same effect as the end of the data and is not told apart.
LoopEnd ==
  /\ pc = "loop"
  /\ LET fails == pos < FileSize(file)
         r     == FileIORead(f, fails, << >>)
     IN  /\ read_failed' = fails
         /\ loop_error' = (loop_error \/ r.raised)
  /\ f' = Close(f)
  /\ closes' = closes + CloseCalls(f)
  /\ pc' = "summary"
  /\ UNCHANGED <<envVars, countVars, summary_error, io_built, pos, opens,
                 result, bridge_out>>

\* one iteration on a non-empty chunk: buf is the chunk combined with the
\* tail, packets the extraction result, outs what the decoder does on each
\* extracted frame
LoopIter(chunk, buf, packets, outs) ==
  LET n       == Len(chunk)
      cp      == packets.complete_packets
      r       == FirstRaise(outs)
      last    == IF r = 0 THEN Len(cp) ELSE r
      decoded == SelectSeq(Indices(SubSeq(cp, 1, last)),
                           LAMBDA k : outs[k] = "result")
  IN  /\ pos' = pos + n
      /\ reads' = reads + 1
      /\ chunk_count' = chunk_count + 1
      /\ total_bytes_read' = AddBytes(total_bytes_read, chunk, buf)
      /\ last_buf' = buf
      /\ last_packets' = cp
      /\ packet_buffer' = packets.remaining_buffer
      /\ emitted' = emitted \o cp
      /\ forwarded' = forwarded \o [k \in 1..last |-> DecoderCall(cp[k])]
      /\ parsed_packets' = parsed_packets \o [k \in 1..Len(decoded) |-> cp[decoded[k]]]
      /\ stats' = AnalyzerCount(stats, last, Len(decoded))
      /\ decoder_none' = (decoder_none \/ \E k \in 1..last : outs[k] = "none")
      /\ IF r = 0
           THEN /\ loop_error' = loop_error
                /\ f' = f
                /\ closes' = closes
                /\ pc' = "loop"
           ELSE \* except Exception: print, traceback; finally: close
                /\ loop_error' = TRUE
                /\ f' = Close(f)
                /\ closes' = closes + CloseCalls(f)
                /\ pc' = "summary"

ReadChunk ==
  /\ pc = "loop"
  /\ reads < MaxReads
  /\ \E n \in ReadLens(file, pos, ReadSize) \ {0} :
       LET chunk   == FileIORead(f, FALSE, Slice(file, pos, n)).buf
           buf     == Combine(packet_buffer, chunk)
           packets == ExtractHdlcPackets(buf, packet_buffer)
       IN  \E outs \in [1..Len(packets.complete_packets) -> DecoderOutcomes] :
             LoopIter(chunk, buf, packets, outs)
  /\ UNCHANGED <<envVars, read_failed, summary_error, io_built, opens,
                 result, bridge_out>>

(* ------------------------------------------------------------------ *)
(* QmdlReader._read_hex_data: statistics and return_data               *)
(* ------------------------------------------------------------------ *)
\* total_bytes_read / chunk_count if chunk_count > 0 else 0, as a fraction
AvgChunkSize(bytes, chunks) ==
  IF chunks > 0 THEN [num |-> bytes, den |-> chunks] ELSE [num |-> 0, den |-> 1]

SampleLimit == 10

ReturnData ==
  [metadata |-> [file_path      |-> fname,
                 total_bytes    |-> total_bytes_read,
                 total_chunks   |-> chunk_count,
                 avg_chunk_size |-> AvgChunkSize(total_bytes_read, chunk_count),
                 signaling_extraction_stats |-> stats,
                 sample_data    |-> SubSeq(parsed_packets, 1,
                                      Min(SampleLimit, Len(parsed_packets)))],
   status |-> "completed",
   message |-> "Signaling analyzer successfully parsed",
   all_extracted_data |-> "analyzer",
   card_data |-> "analyzer",
   pcap_statistics |-> "analyzer"]

\* (mutation) a failure inside the loop discards what was gathered
LoopOutcomeDropped(err, data) == IF err THEN None ELSE data

\* except Exception inside _read_hex_data prints the error and falls through
\* to the statistics: return_data is built whether or not the loop failed
LoopOutcome(err, data) == data

\* the analyzer calls after the loop succeed: return return_data
Summary ==
  /\ pc = "summary"
  /\ summary_error' = FALSE
  /\ Return(LoopOutcome(loop_error, ReturnData))
  /\ UNCHANGED <<envVars, countVars, loop_error, read_failed, io_built, f,
                 pos, opens, closes>>

\* an analyzer call after the loop raises: the exception leaves
\* _read_hex_data and read_qmdl_file returns None
SummaryFails ==
  /\ pc = "summary"
  /\ summary_error' = TRUE
  /\ Return(ReadCaught("analyzer"))
  /\ UNCHANGED <<envVars, countVars, loop_error, read_failed, io_built, f,
                 pos, opens, closes>>

(* ------------------------------------------------------------------ *)
(* A further read_qmdl_file call on the same QmdlReader                 *)
(* ------------------------------------------------------------------ *)
\* most runs made on one QmdlReader
MaxRuns == 2

\* the files of a further run: an empty one, one frame, two frames
RerunFiles ==
  {File(d, 0, TRUE, TRUE) :
     d \in {<< >>, Framed(MinPacketLen),
            Framed(MinPacketLen) \o Run(65, MinPacketLen) \o <<Delim>>}}

\* self.analyzer is created in QmdlReader.__init__ and read_qmdl_file does
\* not touch it before the loop: the statistics carry over
NewRun ==
  /\ pc = "returned"
  /\ run_no < MaxRuns
  /\ file' \in RerunFiles
  /\ caller' = caller
  /\ min_size_mb' \in IF caller = "bridge" THEN {DefaultMinSizeMb} ELSE MinSizeMbs
  /\ pc' = "gate"
  /\ run_no' = run_no + 1
  /\ stats' = stats
  /\ stats0' = stats
  /\ io_built' = FALSE
  /\ f' = "none"
  /\ pos' = 0
  /\ opens' = 0
  /\ closes' = 0
  /\ fnames' = << >>
  /\ fname' = << >>
  /\ file_available' = TRUE
  /\ fmode' = "none"
  /\ fnames0' = << >>
  /\ opened' = << >>
  /\ packet_buffer' = << >>
  /\ chunk_count' = 0
  /\ total_bytes_read' = 0
  /\ parsed_packets' = << >>
  /\ reads' = 0
  /\ last_buf' = << >>
  /\ last_packets' = << >>
  /\ emitted' = << >>
  /\ forwarded' = << >>
  /\ decoder_none' = FALSE
  /\ loop_error' = FALSE
  /\ read_failed' = FALSE
  /\ summary_error' = FALSE
  /\ result' = Pending
  /\ bridge_out' = Pending
  /\ UNCHANGED <<advances, ops, last_op, last_read, peer, listVars, ex>>

Next ==
  \/ GateError
  \/ GateReject
  \/ GatePass
  \/ OpenFile
  \/ OpenFails
  \/ LoopEnd
  \/ ReadChunk
  \/ Summary
  \/ SummaryFails
  \/ NewRun

Spec == Init /\ [][Next]_vars

(* ------------------------------------------------------------------ *)
(* FileIO driven on its own: a list of names, then any sequence of      *)
(* read, open_next_file and close calls                                 *)
(* ------------------------------------------------------------------ *)
\* longest list of names a FileIO is constructed from
MaxFiles == 2

\* most calls made on one FileIO after its construction
MaxOps == 5

\* a name no file has: open() raises
MissingName == <<"x">>

IONames ==
  {<<"a">>, <<"a">> \o DotGz, <<"a">> \o DotBz2, DotGz, DotBz2,
   <<"a">> \o DotGz \o DotQmdl, <<"a">> \o DotGz \o DotBz2,
   <<"a">> \o DotBz2 \o DotGz, MissingName}

IOLists == SeqsUpTo(IONames, MaxFiles)

Openable(name) == name # MissingName

\* the bytes an opened file yields
IOContent == <<65, 66>>

IOReadSizes == {1, ReadSize}

\* if isinstance(fnames, str): fnames = [fnames]
AsList(is_str, arg) == IF is_str THEN <<arg>> ELSE arg

\* (mutation) an advance on an exhausted source negates the flag
ExhaustedToggles(available) == ~available

\* except IndexError: self.file_available = False
Exhausted(available) == FALSE

\* (mutation) a read that finds the active file out of data moves on to the
\* next pending name
AfterReadChains(src, buf) ==
  IF buf = << >> /\ src.fnames # << >>
    THEN [src EXCEPT !.fname = src.fnames[Len(src.fnames)],
                     !.fnames = SubSeq(src.fnames, 1, Len(src.fnames) - 1)]
    ELSE src

\* FileIO.read assigns none of fnames, fname, file_available
AfterRead(src, buf) == src

pipeVars == <<file, caller, min_size_mb, pc, stats0, run_no, peer, listVars, ex,
              runVars, result, bridge_out>>

\* FileIO(fnames): __init__, with the open_next_file call that ends it
Construct(names) ==
  LET stack == PendingStack(names)
  IN  /\ fnames0' = names
      /\ IF stack = << >>
           THEN \* self.fnames.pop() raises IndexError
                /\ io_built' = TRUE
                /\ fnames' = stack
                /\ fname' = << >>
                /\ file_available' = Exhausted(TRUE)
                /\ last_op' = "init"
                /\ UNCHANGED <<f, fmode, opens, opened>>
           ELSE LET name == stack[Len(stack)]
                IN  /\ fnames' = SubSeq(stack, 1, Len(stack) - 1)
                    /\ fname' = name
                    /\ file_available' = TRUE
                    /\ opens' = opens + 1
                    /\ opened' = opened \o <<name>>
                    /\ IF Openable(name)
                         THEN /\ io_built' = TRUE
                              /\ f' = "open"
                              /\ fmode' = OpenMode(name)
                              /\ last_op' = "init"
                         ELSE \* open() raises: the constructor raises
                              /\ io_built' = FALSE
                              /\ last_op' = "init_raised"
                              /\ UNCHANGED <<f, fmode>>
      /\ pos' = 0
      /\ UNCHANGED <<closes, advances, ops, last_read, pipeVars>>

IOConstruct ==
  /\ pc = "fileio"
  /\ last_op = "none"
  /\ \/ \E name \in IONames : Construct(AsList(TRUE, name))
     \/ \E names \in IOLists : Construct(AsList(FALSE, names))

\* FileIO.read(n)
IORead ==
  /\ pc = "fileio"
  /\ io_built
  /\ ops < MaxOps
  /\ \E n \in IOReadSizes :
     \E fails \in (IF f = "open" THEN BOOLEAN ELSE {TRUE}) :
       LET got == Min(n, Len(IOContent) - pos)
           r   == FileIORead(f, fails, SubSeq(IOContent, pos + 1, pos + got))
           src == AfterRead([fnames |-> fnames, fname |-> fname,
                             file_available |-> file_available], r.buf)
       IN  /\ last_read' = r.buf
           /\ pos' = pos + Len(r.buf)
           /\ fnames' = src.fnames
           /\ fname' = src.fname
           /\ file_available' = src.file_available
           /\ last_op' = IF r.raised THEN "read_raised" ELSE "read"
  /\ ops' = ops + 1
  /\ UNCHANGED <<io_built, f, fmode, opens, closes, fnames0, opened, advances,
                 pipeVars>>

\* FileIO.open_next_file()
IOAdvance ==
  /\ pc = "fileio"
  /\ io_built
  /\ ops < MaxOps
  /\ IF fnames = << >>
       THEN \* self.fnames.pop() raises IndexError
            /\ file_available' = Exhausted(file_available)
            /\ last_op' = "advance"
            /\ UNCHANGED <<fnames, fname, f, pos, fmode, opens, closes, opened>>
       ELSE LET name == fnames[Len(fnames)]
            IN  /\ fnames' = SubSeq(fnames, 1, Len(fnames) - 1)
                /\ fname' = name
                /\ file_available' = file_available
                \* _open_file: if self.f: self.f.close()
                /\ closes' = closes + CloseCalls(f)
                /\ opens' = opens + 1
                /\ opened' = opened \o <<name>>
                /\ IF Openable(name)
                     THEN /\ f' = "open"
                          /\ pos' = 0
                          /\ fmode' = OpenMode(name)
                          /\ last_op' = "advance"
                     ELSE \* open() raises: self.f stays the closed handle
                          /\ f' = Close(f)
                          /\ last_op' = "advance_raised"
                          /\ UNCHANGED <<pos, fmode>>
  /\ advances' = advances + 1
  /\ ops' = ops + 1
  /\ UNCHANGED <<io_built, fnames0, last_read, pipeVars>>

\* FileIO.close()
IOClose ==
  /\ pc = "fileio"
  /\ io_built
  /\ ops < MaxOps
  /\ f' = Close(f)
  /\ closes' = closes + CloseCalls(f)
  /\ last_op' = "close"
  /\ ops' = ops + 1
  /\ UNCHANGED <<io_built, pos, fmode, opens, fnames, fname, file_available,
                 fnames0, opened, advances, last_read, pipeVars>>

InitIO ==
  /\ file = File(<< >>, 0, TRUE, TRUE)
  /\ caller = "reader"
  /\ min_size_mb = 0
  /\ pc = "fileio"
  /\ run_no = 1
  /\ stats = NoStats
  /\ stats0 = NoStats
  /\ peer = NoPeer
  /\ HandleIdle
  /\ IOIdle
  /\ ListIdle
  /\ ex = NoExtract
  /\ RunIdle
  /\ result = Pending
  /\ bridge_out = Pending

NextIO ==
  \/ IOConstruct
  \/ IORead
  \/ IOAdvance
  \/ IOClose

SpecIO == InitIO /\ [][NextIO]_vars

(* ------------------------------------------------------------------ *)
(* QmdlReader.list_qmdl_files                                          *)
(* ------------------------------------------------------------------ *)
\* most entries of a directory
MaxEntries == 2

EntryNames ==
  {<<"a">> \o DotQmdl, <<"a">> \o DotQMDL, <<"a", ".", "Q", "m", "d", "l">>,
   <<"a", ".", "t", "x", "t">>, <<"q", "m", "d", "l">>, DotQmdl}

\* min_size_mb values list_qmdl_files is called with
ListMbs == {1, DefaultMinSizeMb}

\* an entry: its name, its size, whether os.path.getsize succeeds on it
Entries(mb) ==
  [name : EntryNames, size : GateSizes(mb), stat_ok : BOOLEAN]

\* what os.listdir may return: entries of different names, in any order
Listings(mb) ==
  {es \in SeqsUpTo(Entries(mb), MaxEntries) :
     \A i, j \in 1..Len(es) : i # j => es[i].name # es[j].name}

\* file.endswith('.qmdl') or file.endswith('.QMDL')
HasQmdlExt(name) == EndsWith(name, DotQmdl) \/ EndsWith(name, DotQMDL)

\* file_size >= min_size_bytes
BigEnough(file_size, mb) == file_size >= GateBytes(mb)

\* the entry is appended to qmdl_files
Listed(e, mb) == HasQmdlExt(e.name) /\ e.stat_ok /\ BigEnough(e.size, mb)

\* the list list_qmdl_files returns (a path is identified by its name)
ListQmdlFiles(dir, mb) ==
  IF dir.accessible
    THEN LET kept == SelectSeq(dir.entries, LAMBDA e : Listed(e, mb))
         IN  [k \in 1..Len(kept) |-> kept[k].name]
    ELSE << >>

ListFiles ==
  /\ pc = "list"
  /\ listing' = ListQmdlFiles(directory, list_mb)
  /\ pc' = "listed"
  /\ UNCHANGED <<file, caller, min_size_mb, stats0, run_no, peer, directory,
                 list_mb, ex, runVars, result, bridge_out, io_built, f, pos,
                 opens, closes, ioVars>>

InitList ==
  /\ file = File(<< >>, 0, TRUE, TRUE)
  /\ caller = "reader"
  /\ min_size_mb = 0
  /\ pc = "list"
  /\ run_no = 1
  /\ stats = NoStats
  /\ stats0 = NoStats
  /\ peer = NoPeer
  /\ HandleIdle
  /\ IOIdle
  /\ list_mb \in ListMbs
  /\ directory \in [accessible : BOOLEAN, entries : Listings(list_mb)]
  /\ listing = << >>
  /\ ex = NoExtract
  /\ RunIdle
  /\ result = Pending
  /\ bridge_out = Pending

NextList == ListFiles

SpecList == InitList /\ [][NextList]_vars

(* ------------------------------------------------------------------ *)
(* Two read_qmdl_file calls on one QmdlReader, interleaved: the run     *)
(* above and a second one, `peer`, with its own locals and its own      *)
(* FileIO; self.analyzer is the reader's                                *)
(* ------------------------------------------------------------------ *)
PairFiles ==
  RerunFiles \cup {File(<< >>, 0, TRUE, FALSE), File(<< >>, 0, FALSE, FALSE)}

\* one iteration of the second run's chunk loop
PeerIter(chunk, packets, outs) ==
  LET cp      == packets.complete_packets
      r       == FirstRaise(outs)
      last    == IF r = 0 THEN Len(cp) ELSE r
      results == Cardinality({k \in 1..last : outs[k] = "result"})
  IN  /\ peer' = [peer EXCEPT
                    !.pos = @ + Len(chunk),
                    !.chunk_count = @ + 1,
                    !.total_bytes_read = AddBytes(@, chunk, chunk),
                    !.packet_buffer = packets.remaining_buffer,
                    !.forwarded = @ + last,
                    !.pc = IF r = 0 THEN "loop" ELSE "done"]
      /\ stats' = AnalyzerCount(stats, last, results)

\* the second run reads a chunk and hands its frames to self.analyzer
PeerChunk ==
  /\ peer.pc = "loop"
  /\ peer.pos < FileSize(peer.file)
  /\ LET n       == Min(ReadSize, FileSize(peer.file) - peer.pos)
         chunk   == Slice(peer.file, peer.pos, n)
         buf     == Combine(peer.packet_buffer, chunk)
         packets == ExtractHdlcPackets(buf, peer.packet_buffer)
     IN  \E outs \in [1..Len(packets.complete_packets) -> DecoderOutcomes] :
           PeerIter(chunk, packets, outs)
  /\ UNCHANGED <<file, caller, min_size_mb, pc, stats0, run_no, listVars, ex,
                 packet_buffer, chunk_count, total_bytes_read, parsed_packets,
                 reads, last_buf, last_packets, emitted, forwarded,
                 decoder_none, loop_error, read_failed, summary_error,
                 result, bridge_out, io_built, f, pos, opens, closes, ioVars>>

\* the second run reads b'' and leaves its loop
PeerEnd ==
  /\ peer.pc = "loop"
  /\ peer' = [peer EXCEPT !.pc = "done"]
  /\ UNCHANGED <<file, caller, min_size_mb, pc, stats0, run_no, listVars, ex,
                 runVars, result, bridge_out, io_built, f, pos, opens, closes,
                 ioVars>>

InitPair ==
  /\ file \in PairFiles
  /\ caller = "reader"
  /\ min_size_mb \in MinSizeMbs
  /\ pc = "gate"
  /\ run_no = 1
  /\ stats = NoStats
  /\ stats0 = NoStats
  /\ peer \in {[NoPeer EXCEPT !.pc = "loop", !.file = fl] : fl \in RerunFiles}
  /\ HandleIdle
  /\ IOIdle
  /\ ListIdle
  /\ ex = NoExtract
  /\ RunIdle
  /\ result = Pending
  /\ bridge_out = Pending

NextPair ==
  \/ GateError
  \/ GateReject
  \/ GatePass
  \/ OpenFile
  \/ OpenFails
  \/ LoopEnd
  \/ ReadChunk
  \/ Summary
  \/ SummaryFails
  \/ PeerChunk
  \/ PeerEnd

SpecPair == InitPair /\ [][NextPair]_vars

(* ------------------------------------------------------------------ *)
(* _extract_hdlc_packets fed one stream chunk by chunk, the tail carried *)
(* over as in _read_hex_data: once with the scan alone, once with the    *)
(* fallback alone, once with the scan raising on any of the buffers      *)
(* ------------------------------------------------------------------ *)
\* longest stream
MaxExLen == 9

\* streams with any placing of the delimiters; the other bytes all differ,
\* so that a byte of a frame tells where in the stream it came from
ExStreams ==
  UNION {{[i \in 1..n |-> IF i \in D THEN Delim ELSE 64 + i] :
            D \in SUBSET (1..n)} : n \in 0..MaxExLen}

ExtractChunk ==
  /\ pc = "extract"
  /\ \E n \in 1..(Len(ex.stream) - ex.pos) :
     \E scan_raises \in BOOLEAN :
       LET chunk == SubSeq(ex.stream, ex.pos + 1, ex.pos + n)
           p == ExtractHdlcPackets(Combine(ex.tail_p, chunk), ex.tail_p)
           q == FallbackSplit(Combine(ex.tail_f, chunk))
           m == ExtractOrFallback(Combine(ex.tail_m, chunk), ex.tail_m,
                                  scan_raises)
       IN  ex' = [ex EXCEPT
                    !.pos = @ + n,
                    !.chunks = @ + 1,
                    !.tail_p = p.remaining_buffer,
                    !.out_p = @ \o p.complete_packets,
                    !.tail_f = q.remaining_buffer,
                    !.out_f = @ \o q.complete_packets,
                    !.tail_m = m.remaining_buffer,
                    !.out_m = @ \o m.complete_packets,
                    !.fell_back = @ \/ scan_raises]
  /\ UNCHANGED <<file, caller, min_size_mb, pc, stats0, run_no, peer,
                 listVars, runVars, result, bridge_out, io_built, f, pos,
                 opens, closes, ioVars>>

InitExtract ==
  /\ file = File(<< >>, 0, TRUE, TRUE)
  /\ caller = "reader"
  /\ min_size_mb = 0
  /\ pc = "extract"
  /\ run_no = 1
  /\ stats = NoStats
  /\ stats0 = NoStats
  /\ peer = NoPeer
  /\ HandleIdle
  /\ IOIdle
  /\ ListIdle
  /\ ex \in {NewExtract(s) : s \in ExStreams}
  /\ RunIdle
  /\ result = Pending
  /\ bridge_out = Pending

NextExtract == ExtractChunk

SpecExtract == InitExtract /\ [][NextExtract]_vars

(* ------------------------------------------------------------------ *)
(* Properties                                                          *)
(* ------------------------------------------------------------------ *)
\* the bytes of the file consumed so far
Consumed == SubSeq(file.data, 1, pos)

\* C1: chunk-boundary independence.  Whatever the split of the bytes read so
\* far into chunks, the frames emitted by the loop (tail + chunk -> extract ->
\* new tail) are, in order, the frames a single extraction of those bytes as
\* one chunk emits: none lost, duplicated or altered.
C1_ChunkIndependence ==
  file.pad = 0 =>
    emitted = ExtractHdlcPackets(Consumed, << >>).complete_packets

\* C1 witness: a whole file read in three or more chunks, a frame emitted
C1_Witness ==
  /\ pc = "summary"
  /\ ~loop_error
  /\ pos = FileSize(file)
  /\ reads >= 3
  /\ Len(emitted) >= 2

\* the file holds one delimiter, n non-delimiter bytes and a closing delimiter
IsFramed(d) ==
  /\ Len(d) >= 2
  /\ d[1] = Delim
  /\ d[Len(d)] = Delim
  /\ \A i \in 2..(Len(d) - 1) : d[i] # Delim

\* the whole file has been fed to the loop
WholeFileRead == io_built /\ file.pad = 0 /\ pos = FileSize(file)

\* C2 (as claimed): a delimiter, 10,000 non-delimiter bytes and a closing
\* delimiter, fed in 4096-byte chunks, yield exactly one frame holding those
\* 10,000 bytes.
C2_LongFrameReassembled ==
  (WholeFileRead /\ file.data = Framed(LongFrameLen)) =>
     emitted = <<Run(65, LongFrameLen)>>

\* C2 (amended): a delimiter, N non-delimiter bytes and a closing delimiter,
\* fed to the loop in chunks, yield exactly one frame holding those N bytes
\* when 3 <= N <= 8192, also when the frame straddles chunk boundaries, and no
\* frame otherwise; the 10,000-byte frame yields none.
C2_FramedStream ==
  (WholeFileRead /\ IsFramed(file.data)) =>
     emitted = IF MinPacketLen <= Len(file.data) - 2
                    /\ Len(file.data) - 2 <= MaxPacketLen
                  THEN <<SubSeq(file.data, 2, Len(file.data) - 1)>>
                  ELSE << >>

\* C2 witness: an 8192-byte frame read in 4096-byte chunks and reassembled
C2_Witness ==
  /\ WholeFileRead
  /\ file.data = Framed(MaxPacketLen)
  /\ reads = 3
  /\ emitted = <<Run(65, MaxPacketLen)>>

\* buf holds at least two delimiters
HasTwoDelims(b) ==
  \E i \in 1..Len(b) : b[i] = Delim /\ \E j \in (i + 1)..Len(b) : b[j] = Delim

\* the delimiters of b that are followed by another delimiter
OpeningDelims(b) ==
  {s \in 1..Len(b) : b[s] = Delim /\ \E e \in (s + 1)..Len(b) : b[e] = Delim}

\* the first delimiter after position s
NextDelim(b, s) ==
  IF b[s + 1] = Delim
    THEN s + 1
    ELSE CHOOSE e \in (s + 1)..Len(b) :
           b[e] = Delim /\ \A j \in (s + 1)..(e - 1) : b[j] # Delim

\* length of the byte run between the delimiter at s and the next one
RunLen(b, s) == NextDelim(b, s) - s - 1

\* the k-th smallest element of a set of integers
Kth(S, k) == CHOOSE s \in S : Cardinality({t \in S : t < s}) = k - 1

\* C3: for a buffer with at least two 0x7E, the tail is the suffix starting at
\* (and including) the last delimiter, and the frames are the size-valid byte
\* runs strictly between adjacent delimiters, in buffer order; the buffer
\* 7E 'AB' 7E 'XYZ123' 7E gives the single frame 'XYZ123' and tail 7E.
C3_TailAndFrames ==
  (reads > 0 /\ HasTwoDelims(last_buf)) =>
     LET b == last_buf
         k == Len(b) - Len(packet_buffer) + 1
         V == {s \in OpeningDelims(b) :
                 MinPacketLen <= RunLen(b, s) /\ RunLen(b, s) <= MaxPacketLen}
     IN  /\ k >= 1
         /\ packet_buffer = SubSeq(b, k, Len(b))
         /\ b[k] = Delim
         /\ \A j \in (k + 1)..Len(b) : b[j] # Delim
         /\ Len(last_packets) = Cardinality(V)
         /\ \A n \in 1..Len(last_packets) :
              last_packets[n] =
                SubSeq(b, Kth(V, n) + 1, NextDelim(b, Kth(V, n)) - 1)
         /\ b = ExampleBuffer =>
              /\ last_packets = <<(<<88, 89, 90, 49, 50, 51>>)>>
              /\ packet_buffer = <<Delim>>

\* C3 witness: the example buffer has been extracted in one piece
C3_Witness ==
  /\ last_buf = ExampleBuffer
  /\ Len(last_packets) = 1
  /\ packet_buffer = <<Delim>>

\* C4: a buffer with zero or one 0x7E yields no frame and a tail equal to the
\* whole buffer.
C4_FewDelimsKeepAll ==
  (reads > 0 /\ ~HasTwoDelims(last_buf)) =>
     /\ last_packets = << >>
     /\ packet_buffer = last_buf

\* C4 witness: a buffer whose only delimiter is not its first byte
C4_Witness ==
  /\ reads > 0
  /\ ~HasTwoDelims(last_buf)
  /\ \E i \in 2..Len(last_buf) : last_buf[i] = Delim
  /\ packet_buffer = last_buf

\* C5: a run between adjacent delimiters is emitted, and forwarded to the
\* decoder, iff its length L has 3 <= L <= 8192; every emitted or forwarded
\* frame has a length in [3, 8192].
C5_SizeWindow ==
  /\ \A n \in 1..Len(emitted) :
       3 <= Len(emitted[n]) /\ Len(emitted[n]) <= 8192
  /\ \A n \in 1..Len(forwarded) :
       3 <= Len(forwarded[n].packet) /\ Len(forwarded[n].packet) <= 8192
  /\ \A s \in OpeningDelims(last_buf) :
       (3 <= RunLen(last_buf, s) /\ RunLen(last_buf, s) <= 8192)
         <=> \E n \in 1..Len(last_packets) :
               last_packets[n] = SubSeq(last_buf, s + 1, s + RunLen(last_buf, s))
  /\ (~loop_error /\ pc # "loop") =>
       Len(forwarded) = Len(emitted)

\* C5 witness: runs of 8192 and 3 bytes emitted, runs of 8193 and 2 dropped
C5_Witness ==
  /\ WholeFileRead
  /\ file.data = WindowBuffer
  /\ Len(emitted) = 2
  /\ Len(emitted[1]) = MaxPacketLen
  /\ Len(emitted[2]) = MinPacketLen
  /\ ~loop_error

\* C6: after N non-empty chunks, with a decoder that returned a result for
\* every frame, the metadata has total_chunks = N, total_bytes = the sum of the
\* lengths of the raw chunks as read (the offset reached in the file), and
\* avg_chunk_size = total_bytes / total_chunks.
C6_ChunkAndByteCounts ==
  (pc = "returned" /\ IsDict(result) /\ reads > 0
     /\ ~decoder_none /\ ~loop_error) =>
     /\ result.metadata.total_chunks = reads
     /\ result.metadata.total_bytes = pos
     /\ result.metadata.avg_chunk_size.num * reads
          = pos * result.metadata.avg_chunk_size.den

\* C6 witness: a run of several chunks with a carried tail and a decoded frame
C6_Witness ==
  /\ pc = "returned"
  /\ IsDict(result)
  /\ ~decoder_none
  /\ ~loop_error
  /\ result.metadata.total_chunks >= 3
  /\ Len(result.metadata.sample_data) >= 1
  /\ Len(packet_buffer) >= 2

\* C7: a file one byte (or more) under min_size_mb*1024*1024 gets the "too
\* small" outcome with no byte source constructed and no open; a file of
\* exactly the gate size (or more) passes the gate and is opened for the
\* chunked read.
C7_SizeGate ==
  (pc = "returned" /\ file.exists) =>
     IF FileSize(file) < min_size_mb * 1024 * 1024
       THEN result = None /\ ~io_built /\ opens = 0 /\ reads = 0
       ELSE /\ opens = 1
            /\ file.openable => io_built
            /\ (file.openable /\ ~loop_error /\ IsDict(result)
                  /\ pos = FileSize(file)) =>
                 result.metadata.total_bytes = FileSize(file)

\* C7 witness: a capture of exactly the gate size read to its end
C7_Witness ==
  /\ pc = "returned"
  /\ min_size_mb >= 1
  /\ FileSize(file) = min_size_mb * 1024 * 1024
  /\ pos = FileSize(file)
  /\ IsDict(result)
  /\ result.metadata.total_bytes = FileSize(file)

\* C8: read_qmdl_file always returns a structured outcome, a result record or
\* None, whatever fails (missing or unreadable file, too small, decoder or
\* analyzer failure): no exception reaches the caller, and a run that has not
\* returned can always take a step.
C8_AlwaysStructuredOutcome ==
  /\ pc = "returned" => (result = None \/ IsDict(result))
  /\ pc # "returned" => (result = Pending /\ ENABLED Next)
  /\ (pc = "returned" /\ caller = "bridge") =>
       ("json" \in DOMAIN bridge_out \/ "error" \in DOMAIN bridge_out)

\* C8 witness: the file could be sized but not opened, and the run returned
C8_Witness ==
  /\ pc = "returned"
  /\ file.exists
  /\ ~file.openable
  /\ opens = 1
  /\ result = None

\* C9 (as claimed): when an exception escapes the chunk loop, the outcome
\* returned for the run is a result object that carries an error field.
C9_LoopFailureCarriesError ==
  (pc = "returned" /\ loop_error) =>
     (IsDict(result) /\ "error" \in DOMAIN result)

\* the file passed the size gate
PassedGate == file.exists /\ FileSize(file) >= min_size_mb * 1024 * 1024

\* C10 (as claimed): a run whose file could not be read (open failure or loop
\* failure) never returns the value returned for a file rejected by the size
\* gate (None from the reader, its "too small" error object from the bridge).
C10_UnreadableDistinctFromTooSmall ==
  (pc = "returned" /\ PassedGate /\ (~file.openable \/ loop_error)) =>
     /\ result # None
     /\ bridge_out # BridgeError("File too small or could not be read")

C12_ReadFailureEndsLoop ==
  read_failed =>
    /\ pc \in {"summary", "returned"}
    /\ ~loop_error
    /\ f = "closed"
    /\ (pc = "returned" /\ ~summary_error) =>
         /\ IsDict(result)
         /\ result.metadata.total_chunks = reads
         /\ result.metadata.total_bytes = pos

\* C12 witness: a read failed after a chunk had been read, with data left
\* in the file, and the run returned its result
C12_Witness ==
  /\ pc = "returned"
  /\ read_failed
  /\ IsDict(result)
  /\ reads >= 1
  /\ pos < FileSize(file)

\* C16: when read_qmdl_file has returned, no handle is open, and the handle
\* the run opened (if it opened one) has been closed by exactly one close
\* call: after the loop ended normally, after an exception in the loop, and
\* when the run returned None.
C16_HandlesClosedOnce ==
  pc = "returned" =>
    /\ f # "open"
    /\ closes = (IF io_built THEN 1 ELSE 0)
    /\ io_built => f = "closed"

\* C16 witness: the loop ended by an exception and the run has returned
C16_Witness ==
  /\ pc = "returned"
  /\ loop_error
  /\ io_built
  /\ closes = 1

\* C20: the statistics in a run's result count only that run's frames: the
\* frames this run handed to the decoder and those decoded to a result.
C20_StatsCountOnlyThisRun ==
  (pc = "returned" /\ IsDict(result)) =>
    result.metadata.signaling_extraction_stats =
      AnalyzerCount(NoStats, Len(forwarded), Len(parsed_packets))

\* C13: a FileIO built from [f1, ..., fn] (a single path counting as a list
\* of one) passes the names to open in the order given: the constructor
\* opens f1 and the i-th later advance opens f(i+1).  The names opened so
\* far are a prefix of the list, the pending ones are the rest of it, and
\* fname is the last name opened.
C13_OpensInGivenOrder ==
  (pc = "fileio" /\ last_op # "none") =>
    /\ Len(opened) = Min(Len(fnames0), advances + 1)
    /\ opened = SubSeq(fnames0, 1, Len(opened))
    /\ fnames = Reverse(SubSeq(fnames0, Len(opened) + 1, Len(fnames0)))
    /\ opened # << >> => fname = opened[Len(opened)]

\* C13 witness: a list of two different names, both opened, the second by
\* an advance
C13_Witness ==
  /\ pc = "fileio"
  /\ Len(fnames0) >= 2
  /\ fnames0[1] # fnames0[2]
  /\ advances >= 1
  /\ f = "open"
  /\ Len(opened) >= 2

\* C14: exhaustion is permanent.  No call on a FileIO turns file_available
\* from False back to True, and no call lengthens the pending list.
C14_ExhaustionPermanent ==
  [][(pc = "fileio" /\ io_built) =>
       /\ ~file_available => ~file_available'
       /\ Len(fnames') <= Len(fnames)]_vars

\* C14 witness: a list of one name or more was exhausted by an advance and
\* a further advance and another call were made afterwards
C14_Witness ==
  /\ pc = "fileio"
  /\ Len(fnames0) >= 1
  /\ ~file_available
  /\ advances >= Len(fnames0) + 1
  /\ last_op \in {"read", "close"}

\* C15: a read never advances the source.  A read call leaves the handle,
\* fname, the pending list and file_available as they were, also when the
\* active file is out of data and names are pending.
C15_ReadDoesNotAdvance ==
  [][(pc = "fileio" /\ ops' = ops + 1 /\ last_op' = "read") =>
       /\ fnames' = fnames
       /\ fname' = fname
       /\ file_available' = file_available
       /\ f' = f
       /\ fmode' = fmode
       /\ opened' = opened
       /\ closes' = closes]_vars

\* C15 witness: a read returned nothing on an open file that is out of
\* data, with a name still pending
C15_Witness ==
  /\ pc = "fileio"
  /\ last_op = "read"
  /\ last_read = << >>
  /\ f = "open"
  /\ pos = Len(IOContent)
  /\ fnames # << >>

\* the mode the name's suffix calls for
SuffixMode(name) ==
  IF EndsWith(name, DotGz) /\ name # DotGz THEN "gzip"
  ELSE IF EndsWith(name, DotBz2) /\ name # DotBz2 THEN "bz2"
  ELSE "raw"

\* C17: the active file was opened in the mode its suffix calls for: gzip
\* exactly when the name ends in '.gz', bzip2 exactly when it ends in
\* '.bz2', raw for every other name and for a name that is the suffix alone.
C17_ModeBySuffix ==
  (pc = "fileio" /\ f = "open") => fmode = SuffixMode(fname)

\* the name in lower case
Lower(c) ==
  CASE c = "Q" -> "q" [] c = "M" -> "m" [] c = "D" -> "d" [] c = "L" -> "l"
    [] OTHER -> c

LowerName(name) == [i \in 1..Len(name) |-> Lower(name[i])]

\* C18: the listing holds exactly the entries whose name ends in .qmdl,
\* compared without regard to case, and whose size is at least the gate,
\* each of them once.
C18_ListingExact ==
  (pc = "listed" /\ directory.accessible) =>
    /\ {listing[k] : k \in 1..Len(listing)} =
         {directory.entries[i].name : i \in
            {j \in 1..Len(directory.entries) :
               /\ EndsWith(LowerName(directory.entries[j].name), DotQmdl)
               /\ directory.entries[j].stat_ok
               /\ directory.entries[j].size >= GateBytes(list_mb)}}
    /\ \A i, j \in 1..Len(listing) : i # j => listing[i] # listing[j]

\* C19: a run is unaffected by a second run interleaved with it.  Its
\* frames are those of the bytes it read, and the statistics in its result
\* are what it reports when it runs alone on a new reader: the number of
\* its own frames handed to the decoder and of those decoded to a result.
C19_RunsIndependent ==
  /\ emitted = ExtractHdlcPackets(Consumed, << >>).complete_packets
  /\ (pc = "returned" /\ IsDict(result)) =>
       /\ result.metadata.total_chunks = reads
       /\ result.metadata.signaling_extraction_stats.total_packets =
            Len(forwarded)
       /\ result.metadata.signaling_extraction_stats.parsed_packets =
            Len(parsed_packets)

\* C21: after every iteration of the chunk loop the tail holds no frame
\* closed by two delimiters: it has at most one 0x7e, and when the
\* extraction of that iteration found two delimiters or more, the tail has
\* exactly one and begins with it.
C21_TailHoldsNoFrame ==
  (pc \in {"loop", "summary", "returned"} /\ reads >= 1) =>
    /\ Len(FrameStarts(packet_buffer)) <= 1
    /\ Len(FrameStarts(last_buf)) >= 2 =>
         /\ Len(FrameStarts(packet_buffer)) = 1
         /\ packet_buffer[1] = Delim

\* C21 witness: in the second iteration or later the buffer held two
\* delimiters or more, a frame was emitted, and the tail is a delimiter
\* followed by the bytes of an open frame
C21_Witness ==
  /\ pc = "loop"
  /\ reads >= 2
  /\ Len(FrameStarts(last_buf)) >= 2
  /\ last_packets # << >>
  /\ Len(packet_buffer) >= 2
  /\ packet_buffer[1] = Delim

\* C24: a frame for which the decoder returns nothing does not stop the
\* loop.  As long as no exception has left the loop, every frame emitted so
\* far has been handed to the decoder once, in stream order, with
\* hdlc_encoded and has_crc set; the frames the decoder returned nothing for
\* are not among the decoded ones; the chunk and byte counters count every
\* chunk read.
C24_NoneDoesNotHaltLoop ==
  (pc \in {"loop", "summary", "returned"} /\ ~loop_error) =>
    /\ forwarded = [k \in 1..Len(emitted) |->
                      [packet |-> emitted[k], hdlc_encoded |-> TRUE,
                       has_crc |-> TRUE]]
    /\ Len(parsed_packets) <= Len(forwarded)
    /\ decoder_none => Len(parsed_packets) < Len(forwarded)
    /\ ~decoder_none => Len(parsed_packets) = Len(forwarded)
    /\ chunk_count = reads
    /\ total_bytes_read = pos

\* C24 witness: the decoder returned nothing for the first frame, the loop
\* went on, and a later, different frame was handed over and decoded
C24_Witness ==
  /\ pc = "returned"
  /\ ~loop_error
  /\ decoder_none
  /\ Len(forwarded) = 2
  /\ forwarded[1].packet # forwarded[2].packet
  /\ parsed_packets = <<forwarded[2].packet>>
  /\ IsDict(result)

\* C26: no byte of unresolved data is lost.  After every iteration the tail
\* is a suffix of S, the chunks read so far: all of S while S has fewer than
\* two delimiters, else the part of S from its last delimiter on.
C26_TailIsSuffixOfStream ==
  (file.pad = 0 /\ pc \in {"loop", "summary", "returned"} /\ reads >= 1) =>
    LET S  == Consumed
        fs == FrameStarts(S)
    IN  packet_buffer =
          IF Len(fs) < 2 THEN S ELSE SubSeq(S, fs[Len(fs)], Len(S))

\* C26 witness: three chunks or more were read, they hold two delimiters or
\* more, and the tail is the last delimiter with bytes after it
C26_Witness ==
  /\ file.pad = 0
  /\ pc = "loop"
  /\ reads >= 3
  /\ Len(FrameStarts(Consumed)) >= 2
  /\ Len(packet_buffer) >= 2
  /\ emitted # << >>

\* C25: an advance closes the handle that was active before it: after an
\* advance that opened the next file the open handle is the new one, and
\* after an advance that raised or that found no pending name (the one that
\* exhausts the source included) no handle is open.
C25_AdvanceClosesActive ==
  (pc = "fileio" /\ last_op \in {"advance", "advance_raised"}) =>
    IF last_op = "advance" /\ file_available
      THEN f = "open" /\ fname = opened[Len(opened)]
      ELSE f # "open"

\* the bytes of the stream before its first delimiter
Leading(stream) ==
  {stream[i] : i \in {j \in 1..Len(stream) :
                        \A k \in 1..j : stream[k] # Delim}}

\* C22: the bytes before the first delimiter of a stream are in no emitted
\* frame, whether the scan or the fallback handled the buffers.
C22_LeadingBytesNotEmitted ==
  pc = "extract" =>
    \A k \in 1..Len(ex.out_m) : \A j \in 1..Len(ex.out_m[k]) :
      ex.out_m[k][j] \notin Leading(ex.stream)

\* C23: on a stream that begins with a delimiter, the fallback alone and
\* the scan alone, each carrying its own tail from chunk to chunk, have
\* emitted the same frames in the same order after every chunk.
C23_FallbackAgreesWithScan ==
  (pc = "extract" /\ ex.stream # << >> /\ ex.stream[1] = Delim) =>
    ex.out_f = ex.out_p

\* C23 witness: a stream that begins with a delimiter, read to its end in
\* three chunks or more, two frames emitted, the tails of the two
\* strategies different
C23_Witness ==
  /\ pc = "extract"
  /\ ex.stream # << >>
  /\ ex.stream[1] = Delim
  /\ ex.pos = Len(ex.stream)
  /\ ex.chunks >= 3
  /\ Len(ex.out_f) >= 2
  /\ ex.out_f = ex.out_p
  /\ ex.tail_f # ex.tail_p

====
